---- MODULE Spec2Model ----
(***************************************************************************)
(* Model of quick_start.py: the ingestion / indexing / retrieval pipeline  *)
(* (create_chunk_text, create_pinecone_index, embed_text,                  *)
(* upload_methods_to_pinecone, test_retrieval, verify_metadata, main).     *)
(*                                                                         *)
(* A Python str is a sequence of one-character strings.  The words of the  *)
(* f-string template of create_chunk_text that hold no whitespace are kept *)
(* as one element each ("Description:"); every whitespace character is an  *)
(* element of its own, so str.strip() acts exactly as in Python.           *)
(* A Python dict is a function whose DOMAIN is its key set; the ordered    *)
(* `parameters` dict is a sequence of <<name, explanation>> pairs with     *)
(* pairwise distinct names (insertion order = sequence order).             *)
(***************************************************************************)
EXTENDS Integers, Sequences, FiniteSets, TLC

VARIABLES
    env,          \* names of the environment variables that are set
    indexes,      \* Pinecone: index name -> dimension, for the existing indexes
    store,        \* Pinecone: namespace -> set of stored records
    catalog,      \* ESSENTIAL_METHODS of the running program
    pc,           \* position of main()
    i,            \* upload_methods_to_pinecone: loop position (1-based)
    vectors,      \* upload_methods_to_pinecone: the batch under construction
    q,            \* test_retrieval: position in test_queries (1-based)
    results,      \* results['matches'] of the query issued last
    shown,        \* what has been printed for those matches
    out,          \* console lines of the run that the claims speak about
    error,        \* the exception that ended the run, "" if none
    embedCalls,   \* texts passed to embed_text in this run, in call order
    upsertCalls,  \* index.upsert calls of this run
    queryCalls,   \* index.query calls of this run
    createCalls,  \* pc.create_index calls of this run
    ingested,     \* history: (service, method) -> the metadata built for it by the
                  \*   last upsert that succeeded with an entry of that key
    previous,     \* history: for the keys of this run's upsert that an earlier
                  \*   upsert had too, the description built for them then
    report        \* the `Total vectors` figure main printed, <<>> if none

vars == <<env, indexes, store, catalog, pc, i, vectors, q, results, shown, out, error,
          embedCalls, upsertCalls, queryCalls, createCalls, ingested, previous, report>>

-----------------------------------------------------------------------------
(* Strings *)

Cat2(s, t) == s \o t

RECURSIVE Concat(_)
\* the concatenation of a sequence of strings
Concat(ss) == IF ss = <<>> THEN <<>> ELSE Head(ss) \o Concat(Tail(ss))

RECURSIVE Join(_, _)
\* sep.join(ss)
Join(sep, ss) ==
    IF ss = <<>> THEN <<>>
    ELSE IF Len(ss) = 1 THEN ss[1]
    ELSE ss[1] \o sep \o Join(sep, Tail(ss))

\* str.isspace() of one character
IsSpace(c) == c \in {" ", "\n", "\t", "\r"}

RECURSIVE LStrip(_)
LStrip(s) == IF s # <<>> /\ IsSpace(Head(s)) THEN LStrip(Tail(s)) ELSE s

RECURSIVE RStrip(_)
RStrip(s) ==
    IF s # <<>> /\ IsSpace(s[Len(s)]) THEN RStrip(SubSeq(s, 1, Len(s) - 1)) ELSE s

\* str.strip()
Strip(s) == RStrip(LStrip(s))

\* str.upper() of one character, over the letters the model uses
UpperChar(c) ==
    CASE c = "a" -> "A"
      [] c = "b" -> "B"
      [] c = "c" -> "C"
      [] OTHER -> c

\* str.upper()
Upper(s) == [k \in 1..Len(s) |-> UpperChar(s[k])]

\* s[:n]
Prefix(s, n) == SubSeq(s, 1, IF Len(s) < n THEN Len(s) ELSE n)

\* s.replace(a, b) for one-character a and b
Replace(s, a, b) == [k \in 1..Len(s) |-> IF s[k] = a THEN b ELSE s[k]]

\* t occurs in s as a contiguous substring
Contains(s, t) ==
    \E k \in 0..(Len(s) - Len(t)) : SubSeq(s, k + 1, k + Len(t)) = t

-----------------------------------------------------------------------------
(* json.dumps / json.loads on the values the program passes: a dict from   *)
(* str to str, and the str stored under the `parameters` metadata key.     *)

\* what json.dumps writes for one character of a string (ensure_ascii)
EscapeChar(c) ==
    CASE c = "\"" -> <<"\\", "\"">>
      [] c = "\\" -> <<"\\", "\\">>
      [] c = "\n" -> <<"\\", "n">>
      [] c = "\t" -> <<"\\", "t">>
      [] c = "\r" -> <<"\\", "r">>
      [] OTHER -> <<c>>

\* json.dumps(s) for a str s
JsonString(s) ==
    <<"\"">> \o Concat([k \in 1..Len(s) |-> EscapeChar(s[k])]) \o <<"\"">>

\* one `"name": "explanation"` member
JsonMember(pair) == JsonString(pair[1]) \o <<":", " ">> \o JsonString(pair[2])

\* str(d) in place of json.dumps(d): Python's repr, with single quotes
ReprDumps(d) ==
    <<"{">>
    \o Join(<<",", " ">>,
            [k \in 1..Len(d) |-> <<"'">> \o d[k][1] \o <<"'", ":", " ", "'">>
                                    \o d[k][2] \o <<"'">>])
    \o <<"}">>

\* json.dumps(d) for an ordered dict d of str to str (default separators,
\* no sort_keys: members are written in insertion order)
JsonDumps(d) ==
    <<"{">> \o Join(<<",", " ">>, [k \in 1..Len(d) |-> JsonMember(d[k])]) \o <<"}">>

\* d[k] = v on an ordered dict: a present key keeps its position
DictSet(d, k, v) ==
    IF \E n \in 1..Len(d) : d[n][1] = k
    THEN [n \in 1..Len(d) |-> IF d[n][1] = k THEN <<k, v>> ELSE d[n]]
    ELSE Append(d, <<k, v>>)

JsonFail == [ok |-> FALSE, val |-> <<>>, next |-> 0]

RECURSIVE SkipWs(_, _)
\* the first position at or after p that holds no JSON whitespace
SkipWs(s, p) == IF p <= Len(s) /\ IsSpace(s[p]) THEN SkipWs(s, p + 1) ELSE p

\* the character an escape \e stands for, "" when \e is no escape the model reads
Unescape(e) ==
    CASE e = "\"" -> "\""
      [] e = "\\" -> "\\"
      [] e = "/" -> "/"
      [] e = "n" -> "\n"
      [] e = "t" -> "\t"
      [] e = "r" -> "\r"
      [] OTHER -> ""

RECURSIVE ScanString(_, _, _)
\* the rest of a JSON string whose opening quote has been read; p is the next
\* position, acc the characters decoded so far (strict: a raw control
\* character ends the parse with an error)
ScanString(s, p, acc) ==
    IF p > Len(s) THEN JsonFail
    ELSE IF s[p] = "\"" THEN [ok |-> TRUE, val |-> acc, next |-> p + 1]
    ELSE IF s[p] = "\\"
         THEN IF p + 1 > Len(s) \/ Unescape(s[p + 1]) = "" THEN JsonFail
              ELSE ScanString(s, p + 2, Append(acc, Unescape(s[p + 1])))
    ELSE IF s[p] \in {"\n", "\t", "\r"} THEN JsonFail
    ELSE ScanString(s, p + 1, Append(acc, s[p]))

\* a JSON string starting at p
ParseString(s, p) ==
    IF p <= Len(s) /\ s[p] = "\"" THEN ScanString(s, p + 1, <<>>) ELSE JsonFail

RECURSIVE ParseMembers(_, _, _)
\* the members of an object from position p (the start of a member) up to and
\* including the closing brace; acc is the dict read so far
ParseMembers(s, p, acc) ==
    LET key == ParseString(s, p) IN
    IF ~key.ok THEN JsonFail
    ELSE LET colon == SkipWs(s, key.next) IN
         IF colon > Len(s) \/ s[colon] # ":" THEN JsonFail
         ELSE LET value == ParseString(s, SkipWs(s, colon + 1)) IN
              IF ~value.ok THEN JsonFail
              ELSE LET sep == SkipWs(s, value.next)
                       d == DictSet(acc, key.val, value.val)
                   IN  IF sep > Len(s) THEN JsonFail
                       ELSE IF s[sep] = "}"
                            THEN [ok |-> TRUE, val |-> d, next |-> sep + 1]
                       ELSE IF s[sep] = ","
                            THEN ParseMembers(s, SkipWs(s, sep + 1), d)
                       ELSE JsonFail

\* json.loads(s) for the documents the model stores: an object whose members
\* are strings.  ok = FALSE stands for the raised json.JSONDecodeError.
JsonLoads(s) ==
    LET open == SkipWs(s, 1) IN
    IF open > Len(s) \/ s[open] # "{" THEN [ok |-> FALSE, val |-> <<>>]
    ELSE LET first == SkipWs(s, open + 1)
             body == IF first <= Len(s) /\ s[first] = "}"
                     THEN [ok |-> TRUE, val |-> <<>>, next |-> first + 1]
                     ELSE ParseMembers(s, first, <<>>)
         IN  IF body.ok /\ SkipWs(s, body.next) = Len(s) + 1
             THEN [ok |-> TRUE, val |-> body.val]
             ELSE [ok |-> FALSE, val |-> <<>>]

-----------------------------------------------------------------------------
(* Configuration *)

INDEX_NAME == "aws-sdk-v3-quickstart"
EMBEDDING_MODEL == "text-embedding-3-small"
DIMENSION == 1536
\* the namespace argument of index.upsert and of both index.query calls
NAMESPACE == "quickstart"
\* top_k of the query of test_retrieval, and its results['matches'][:3]
TEST_TOP_K == 3
\* top_k of the query of verify_metadata
VERIFY_TOP_K == 1
\* meta['code'][:100] in test_retrieval
PREVIEW_LEN == 100

\* the six test_queries of test_retrieval, by their first words
test_queries ==
    << <<"how", " ", "do", " ", "I", " ", "invoke">>,
       <<"add", " ", "item">>,
       <<"upload", " ", "file">>,
       <<"list", " ", "all">>,
       <<"delete", " ", "object">>,
       <<"query", " ", "dynamodb">> >>

\* the query text of verify_metadata
sample_query_text == <<"upload", " ", "file", " ", "to", " ", "s3">>

-----------------------------------------------------------------------------
(* The catalog: the entries ESSENTIAL_METHODS may hold *)

\* longest catalog of a run
MaxCatalog == 2

Services == { <<"a">>, <<"a", "_", "b">> }
Methods == { <<"c">>, <<"b", "_", "c">> }
\* the (service, method) pairs of the catalog entries: two of them share the
\* characters of service + "_" + method
Keys == { <<<<"a">>, <<"c">>>>, <<<<"a">>, <<"b", "_", "c">>>>, <<<<"a", "_", "b">>, <<"c">>>> }
Descriptions == { <<"o", "l", "d">>, <<"n", "e", "w", " ">> }
Package == <<"@", "p">>

\* a code sample that starts and ends with whitespace and is indented inside
IndentedCode == <<"\n", " ", "f", "(", "\n", " ", " ", "x", ")", "\n">>
PlainCode == <<"f", "(", ")">>

\* a parameters dict whose names are not in sorted order and whose texts hold
\* a quote, a backslash and a line break
QuotedParameters ==
    << << <<"Z">>, <<"\"", "q", "\"", "\\">> >>,
       << <<"A", " ", "k">>, <<"u", "\n", "v">> >> >>
\* a parameters dict with an empty name, a name that spells an escape, and
\* texts made of the characters JSON gives a meaning to
PunctuationParameters ==
    << << <<>>, <<"{", "}", ",">> >>,
       << <<"\\", "n">>, <<":", " ", "/", "\t">> >>,
       << <<"k">>, <<>> >> >>
EmptyParameters == <<>>

\* one entry of ESSENTIAL_METHODS
Descriptor(service, method, description, code, parameters) ==
    [ k \in {"service", "method", "description", "code", "parameters", "package"} |->
        CASE k = "service" -> service
          [] k = "method" -> method
          [] k = "description" -> description
          [] k = "code" -> code
          [] k = "parameters" -> parameters
          [] k = "package" -> Package ]

\* the same entry written without its "parameters" key
WithoutParameters(d) == [ k \in (DOMAIN d) \ {"parameters"} |-> d[k] ]

Descriptors ==
    { Descriptor(k[1], k[2], d,
                 IF k[2] = <<"c">> THEN IndentedCode ELSE PlainCode,
                 IF k[2] = <<"c">>
                 THEN (IF k[1] = <<"a">> THEN QuotedParameters ELSE EmptyParameters)
                 ELSE PunctuationParameters) :
        k \in Keys, d \in Descriptions }
    \cup { WithoutParameters(Descriptor(<<"a", "_", "b">>, <<"c">>,
                                        <<"o", "l", "d">>, IndentedCode, EmptyParameters)) }

\* the natural key of an entry
KeyOf(d) == <<d["service"], d["method"]>>

\* the catalogs a run may be started with: up to MaxCatalog entries with pairwise
\* distinct (service, method)
Catalogs ==
    UNION { { c \in [1..n -> Descriptors] :
                \A a, b \in 1..n : a # b => KeyOf(c[a]) # KeyOf(c[b]) } :
            n \in 0..MaxCatalog }

-----------------------------------------------------------------------------
(* create_chunk_text *)

\* method_data.get("parameters", {})
GetParameters(method_data) ==
    IF "parameters" \in DOMAIN method_data THEN method_data["parameters"] ELSE <<>>

\* f"- {name}: {desc}"
ParamLine(pair) == <<"-", " ">> \o pair[1] \o <<":", " ">> \o pair[2]

\* the parameter lines in the reverse of insertion order
ParamsTextReversed(method_data) ==
    LET ps == GetParameters(method_data)
    IN  Join(<<"\n">>, [k \in 1..Len(ps) |-> ParamLine(ps[Len(ps) + 1 - k])])

\* "\n".join(... for name, desc in method_data.get("parameters", {}).items())
ParamsText(method_data) ==
    LET ps == GetParameters(method_data)
    IN  Join(<<"\n">>, [k \in 1..Len(ps) |-> ParamLine(ps[k])])

Placeholder ==
    <<"See", " ", "code", " ", "example", " ", "for", " ", "parameters">>

\* method_data['code'].strip() as it is placed in the text
CodeInText(method_data) == Strip(method_data["code"])

\* the f-string of create_chunk_text, before the final strip
ChunkTemplate(method_data) ==
    Concat(<<
        <<"AWS", " ">>, Upper(method_data["service"]), <<" ">>, method_data["method"],
        <<" ", "Method", " ", "(SDK", " ", "v3)", "\n", "\n">>,
        <<"Description:", " ">>, method_data["description"], <<"\n", "\n">>,
        <<"V3", " ", "Code", " ", "Example:", "\n">>,
        CodeInText(method_data), <<"\n", "\n">>,
        <<"Parameters:", "\n">>,
        IF ParamsText(method_data) # <<>> THEN ParamsText(method_data) ELSE Placeholder,
        <<"\n", "\n">>,
        <<"Package:", " ">>, method_data["package"], <<"\n">>,
        <<"Service:", " ">>, method_data["service"], <<"\n">>,
        <<"Method:", " ">>, method_data["method"], <<"\n">>,
        <<"SDK", " ", "Version:", " ", "v", "3", "\n">> >>)

\* the f-string returned as it is, without the final strip
ChunkTextUnstripped(method_data) == ChunkTemplate(method_data)

\* a text that also tells how many entries the loop has gone through
ChunkTextNumbered(method_data) ==
    Strip(ChunkTemplate(method_data)) \o [k \in 1..i |-> "#"]

create_chunk_text(method_data) == Strip(ChunkTemplate(method_data))

-----------------------------------------------------------------------------
(* embed_text and the record built for one entry *)

\* response.data[0].embedding: the provider's vector for (model, input), an
\* opaque value of the configured dimension; of the input it keeps its length
embed_text(text) == [model |-> EMBEDDING_MODEL, dim |-> DIMENSION, digest |-> Len(text)]

SdkVersion == <<"v", "3">>

\* an id that takes the description in
VectorIdWithDescription(method_data) ==
    method_data["service"] \o <<"_">> \o method_data["method"] \o <<"_">>
        \o method_data["description"] \o <<"_">> \o SdkVersion

\* f"{method_data['service']}_{method_data['method']}_v3"
VectorId(method_data) ==
    method_data["service"] \o <<"_">> \o method_data["method"] \o <<"_">> \o SdkVersion

\* a metadata dict that stores the code as create_chunk_text embeds it
MetadataStripped(method_data) ==
    [ k \in {"service", "method", "sdk_version", "package", "description", "code",
             "parameters", "label"} |->
        CASE k = "service" -> method_data["service"]
          [] k = "method" -> method_data["method"]
          [] k = "sdk_version" -> SdkVersion
          [] k = "package" -> method_data["package"]
          [] k = "description" -> method_data["description"]
          [] k = "code" -> Strip(method_data["code"])
          [] k = "parameters" -> JsonDumps(method_data["parameters"])
          [] k = "label" -> VectorId(method_data) ]

\* a metadata dict whose label leaves the version out
MetadataShortLabel(method_data) ==
    [ k \in {"service", "method", "sdk_version", "package", "description", "code",
             "parameters", "label"} |->
        CASE k = "service" -> method_data["service"]
          [] k = "method" -> method_data["method"]
          [] k = "sdk_version" -> SdkVersion
          [] k = "package" -> method_data["package"]
          [] k = "description" -> method_data["description"]
          [] k = "code" -> method_data["code"]
          [] k = "parameters" -> JsonDumps(method_data["parameters"])
          [] k = "label" -> method_data["service"] \o <<"_">> \o method_data["method"] ]

\* the "metadata" dict of the vector (method_data has a "parameters" key)
Metadata(method_data) ==
    [ k \in {"service", "method", "sdk_version", "package", "description", "code",
             "parameters", "label"} |->
        CASE k = "service" -> method_data["service"]
          [] k = "method" -> method_data["method"]
          [] k = "sdk_version" -> SdkVersion
          [] k = "package" -> method_data["package"]
          [] k = "description" -> method_data["description"]
          [] k = "code" -> method_data["code"]
          [] k = "parameters" -> JsonDumps(method_data["parameters"])
          [] k = "label" -> VectorId(method_data) ]

\* the vector dict appended to `vectors`
Vector(method_data, embedding) ==
    [id |-> VectorId(method_data), values |-> embedding, metadata |-> Metadata(method_data)]

-----------------------------------------------------------------------------
(* The collaborators: the vector index and the environment *)

Namespaces == {NAMESPACE, "other"}

\* records some other program left in the index: one without `code` and
\* `parameters`, one whose `parameters` string is cut short
ForeignPlain ==
    [id |-> <<"x", "1">>, values |-> embed_text(<<"x">>),
     metadata |-> [ k \in {"service", "method", "package", "description"} |->
                      CASE k = "service" -> <<"x">>
                        [] k = "method" -> <<"m">>
                        [] k = "package" -> Package
                        [] k = "description" -> <<"x">> ]]
ForeignCorrupt ==
    [id |-> <<"x", "2">>, values |-> embed_text(<<"y">>),
     metadata |-> [ k \in {"service", "method", "package", "description", "parameters"} |->
                      CASE k = "service" -> <<"x">>
                        [] k = "method" -> <<"n">>
                        [] k = "package" -> Package
                        [] k = "description" -> <<"y">>
                        [] k = "parameters" -> <<"{", "\"", "Z", "\"", ":", " ", "\"", "q">> ]]

\* a record of namespace "other" that has the id of a catalog entry
OtherRecord ==
    [id |-> <<"a", "_", "c", "_", "v", "3">>, values |-> embed_text(<<"z">>),
     metadata |-> [ k \in {"service", "method", "package", "description"} |->
                      CASE k = "service" -> <<"a">>
                        [] k = "method" -> <<"c">>
                        [] k = "package" -> Package
                        [] k = "description" -> <<"z">> ]]

\* what namespace "quickstart" may hold before the first run
InitialRecords == { {}, {ForeignCorrupt}, {ForeignPlain, ForeignCorrupt} }

\* the dimensions an index that exists before the first run may have
IndexDimensions == {DIMENSION, DIMENSION \div 2}

EnvNames == {"OPENAI_API_KEY", "PINECONE_API_KEY"}

RECURSIVE IndexUpsert(_, _)
\* the records of a namespace after upsert(batch): each record of the batch,
\* in order, replaces the record with its id or is added
IndexUpsert(records, batch) ==
    IF batch = <<>> THEN records
    ELSE IndexUpsert({r \in records : r.id # Head(batch).id} \cup {Head(batch)},
                     Tail(batch))

Min(a, b) == IF a < b THEN a ELSE b

\* the results['matches'] lists a query with top_k = k may return over
\* `records`: min(k, number of records) distinct records, best first, the
\* score falling with the rank
IndexQuery(records, k) ==
    LET n == Min(k, Cardinality(records))
    IN  { [j \in 1..n |-> [id |-> m[j].id, score |-> 0 - j, metadata |-> m[j].metadata]] :
            m \in { f \in [1..n -> records] :
                      \A a, b \in 1..n : a # b => f[a] # f[b] } }

-----------------------------------------------------------------------------
(* main *)

Init ==
    /\ env \in SUBSET EnvNames
    /\ indexes \in {<<>>} \cup { [n \in {INDEX_NAME} |-> d] : d \in IndexDimensions }
    /\ \E recs \in InitialRecords :
         store = [ns \in Namespaces |-> IF ns = NAMESPACE THEN recs ELSE {OtherRecord}]
    /\ catalog \in Catalogs
    /\ pc = "main"
    /\ i = 0
    /\ vectors = <<>>
    /\ q = 0
    /\ results = <<>>
    /\ shown = <<>>
    /\ out = <<>>
    /\ error = ""
    /\ embedCalls = <<>>
    /\ upsertCalls = <<>>
    /\ queryCalls = <<>>
    /\ createCalls = <<>>
    /\ ingested = <<>>
    /\ previous = <<>>
    /\ report = <<>>

\* a run ends by an uncaught exception
Raise(kind) == pc' = "crashed" /\ error' = kind

\* main: `if not os.getenv("OPENAI_API_KEY")` ... return
MissingOpenAIKey ==
    /\ pc = "main"
    /\ "OPENAI_API_KEY" \notin env
    /\ pc' = "returned"
    /\ out' = Append(out, "ERROR: OPENAI_API_KEY not found")
    /\ UNCHANGED <<env, indexes, store, catalog, i, vectors, q, results, shown, error,
                   embedCalls, upsertCalls, queryCalls, createCalls, ingested, previous, report>>

\* a main that reports the missing PINECONE_API_KEY and goes on
MissingPineconeKeyIgnored ==
    /\ pc = "main"
    /\ "OPENAI_API_KEY" \in env
    /\ "PINECONE_API_KEY" \notin env
    /\ pc' = "create_index"
    /\ out' = Append(out, "ERROR: PINECONE_API_KEY not found")
    /\ UNCHANGED <<env, indexes, store, catalog, i, vectors, q, results, shown, error,
                   embedCalls, upsertCalls, queryCalls, createCalls, ingested, previous, report>>

\* main: `if not os.getenv("PINECONE_API_KEY")` ... return
MissingPineconeKey ==
    /\ pc = "main"
    /\ "OPENAI_API_KEY" \in env
    /\ "PINECONE_API_KEY" \notin env
    /\ pc' = "returned"
    /\ out' = Append(out, "ERROR: PINECONE_API_KEY not found")
    /\ UNCHANGED <<env, indexes, store, catalog, i, vectors, q, results, shown, error,
                   embedCalls, upsertCalls, queryCalls, createCalls, ingested, previous, report>>

\* main: both variables are set; main goes on to create_pinecone_index()
EnvironmentLoaded ==
    /\ pc = "main"
    /\ EnvNames \subseteq env
    /\ pc' = "create_index"
    /\ out' = Append(out, "Environment variables loaded")
    /\ UNCHANGED <<env, indexes, store, catalog, i, vectors, q, results, shown, error,
                   embedCalls, upsertCalls, queryCalls, createCalls, ingested, previous, report>>

\* a main that goes from the index it found straight to test_retrieval
IndexAlreadyExistsSkipsUpload ==
    /\ pc = "create_index"
    /\ INDEX_NAME \in DOMAIN indexes
    /\ pc' = "test_retrieval"
    /\ q' = 1
    /\ out' = Append(out, "Index already exists")
    /\ UNCHANGED <<env, indexes, store, catalog, i, vectors, results, shown, error,
                   embedCalls, upsertCalls, queryCalls, createCalls, ingested, previous, report>>

\* a create_pinecone_index that calls create_index for an index it has found
IndexAlreadyExistsRecreates ==
    /\ pc = "create_index"
    /\ INDEX_NAME \in DOMAIN indexes
    /\ createCalls' = Append(createCalls,
                             [name |-> INDEX_NAME, dimension |-> DIMENSION,
                              metric |-> "cosine"])
    /\ pc' = "upload"
    /\ i' = 1
    /\ vectors' = <<>>
    /\ out' = Append(out, "Index already exists")
    /\ UNCHANGED <<env, indexes, store, catalog, q, results, shown, error,
                   embedCalls, upsertCalls, queryCalls, ingested, previous, report>>

\* create_pinecone_index: INDEX_NAME in existing_indexes
IndexAlreadyExists ==
    /\ pc = "create_index"
    /\ INDEX_NAME \in DOMAIN indexes
    /\ pc' = "upload"
    /\ i' = 1
    /\ vectors' = <<>>
    /\ out' = Append(out, "Index already exists")
    /\ UNCHANGED <<env, indexes, store, catalog, q, results, shown, error,
                   embedCalls, upsertCalls, queryCalls, createCalls, ingested, previous, report>>

\* create_pinecone_index: the else branch, pc.create_index(...)
CreateIndex ==
    /\ pc = "create_index"
    /\ INDEX_NAME \notin DOMAIN indexes
    /\ indexes' = [n \in {INDEX_NAME} |-> DIMENSION]
    /\ createCalls' = Append(createCalls,
                             [name |-> INDEX_NAME, dimension |-> DIMENSION,
                              metric |-> "cosine"])
    /\ pc' = "upload"
    /\ i' = 1
    /\ vectors' = <<>>
    /\ out' = Append(out, "Index created successfully")
    /\ UNCHANGED <<env, store, catalog, q, results, shown, error,
                   embedCalls, upsertCalls, queryCalls, ingested, previous, report>>

\* create_pinecone_index: pc.list_indexes() or pc.create_index() raises
IndexSetupFails ==
    /\ pc = "create_index"
    /\ Raise("IndexFailure")
    /\ UNCHANGED <<env, indexes, store, catalog, i, vectors, q, results, shown, out,
                   embedCalls, upsertCalls, queryCalls, createCalls, ingested, previous, report>>

-----------------------------------------------------------------------------
(* upload_methods_to_pinecone *)

\* the (service, method) a metadata dict names
MetaKey(meta) == <<meta["service"], meta["method"]>>

\* f extended or overwritten at k
Extend(f, k, v) == [x \in (DOMAIN f) \cup {k} |-> IF x = k THEN v ELSE f[x]]

RECURSIVE Ingest(_, _)
\* `ingested` after a successful upsert of batch
Ingest(f, batch) ==
    IF batch = <<>> THEN f
    ELSE Ingest(Extend(f, MetaKey(Head(batch).metadata), Head(batch).metadata),
                Tail(batch))

\* `previous` after a successful upsert of batch, f being `ingested` before it
Previous(f, batch) ==
    LET keys == { MetaKey(batch[j].metadata) : j \in 1..Len(batch) }
    IN  [k \in keys \cap DOMAIN f |-> f[k]["description"]]

\* an upsert call that names another namespace
UpsertCallOther(batch) == [namespace |-> "other", vectors |-> batch]

\* an upsert call that submits the batch last entry first
UpsertCallReversed(batch) ==
    [namespace |-> NAMESPACE,
     vectors |-> [j \in 1..Len(batch) |-> batch[Len(batch) + 1 - j]]]

\* an upsert call that submits the first vector of the batch only
UpsertCallFirstOnly(batch) ==
    [namespace |-> NAMESPACE,
     vectors |-> IF batch = <<>> THEN <<>> ELSE <<Head(batch)>>]

\* index.upsert(vectors=vectors, namespace="quickstart")
UpsertCall(batch) == [namespace |-> NAMESPACE, vectors |-> batch]

\* an index that empties the namespace before it stores the batch
UpsertedReplacing(call) ==
    [store EXCEPT ![call.namespace] = IndexUpsert({}, call.vectors)]

\* the index after it has carried out an upsert call
Upserted(call) ==
    [store EXCEPT ![call.namespace] = IndexUpsert(@, call.vectors)]

\* a loop turn that upserts the vector as soon as it is built
ProcessMethodUpserting ==
    /\ pc = "upload"
    /\ i <= Len(catalog)
    /\ "parameters" \in DOMAIN catalog[i]
    /\ LET text == create_chunk_text(catalog[i])
           vector == Vector(catalog[i], embed_text(text))
       IN  /\ embedCalls' = Append(embedCalls, text)
           /\ vectors' = Append(vectors, vector)
           /\ upsertCalls' = Append(upsertCalls, UpsertCall(<<vector>>))
           /\ store' = Upserted(UpsertCall(<<vector>>))
    /\ i' = i + 1
    /\ UNCHANGED <<env, indexes, catalog, pc, q, results, shown, out, error,
                   queryCalls, createCalls, ingested, previous, report>>

\* one turn of the for loop: create_chunk_text, embed_text, the vector dict,
\* vectors.append
ProcessMethod ==
    /\ pc = "upload"
    /\ i <= Len(catalog)
    /\ "parameters" \in DOMAIN catalog[i]
    /\ LET text == create_chunk_text(catalog[i])
       IN  /\ embedCalls' = Append(embedCalls, text)
           /\ vectors' = Append(vectors, Vector(catalog[i], embed_text(text)))
    /\ i' = i + 1
    /\ UNCHANGED <<env, indexes, store, catalog, pc, q, results, shown, out, error,
                   upsertCalls, queryCalls, createCalls, ingested, previous, report>>

\* a loop turn that calls embed_text again after it has raised
ProcessMethodEmbedRetries ==
    /\ pc = "upload"
    /\ i <= Len(catalog)
    /\ embedCalls' = embedCalls \o <<create_chunk_text(catalog[i]), create_chunk_text(catalog[i])>>
    /\ Raise("EmbeddingFailure")
    /\ UNCHANGED <<env, indexes, store, catalog, i, vectors, q, results, shown, out,
                   upsertCalls, queryCalls, createCalls, ingested, previous, report>>

\* one turn of the for loop in which embed_text raises
ProcessMethodEmbedFails ==
    /\ pc = "upload"
    /\ i <= Len(catalog)
    /\ embedCalls' = Append(embedCalls, create_chunk_text(catalog[i]))
    /\ Raise("EmbeddingFailure")
    /\ UNCHANGED <<env, indexes, store, catalog, i, vectors, q, results, shown, out,
                   upsertCalls, queryCalls, createCalls, ingested, previous, report>>

\* a loop turn that looks for "parameters" before it embeds the text
ProcessMethodKeyErrorEarly ==
    /\ pc = "upload"
    /\ i <= Len(catalog)
    /\ "parameters" \notin DOMAIN catalog[i]
    /\ Raise("KeyError")
    /\ UNCHANGED <<env, indexes, store, catalog, i, vectors, q, results, shown, out,
                   embedCalls, upsertCalls, queryCalls, createCalls, ingested, previous, report>>

\* one turn of the for loop on an entry without "parameters":
\* method_data['parameters'] raises KeyError after the text has been embedded
ProcessMethodKeyError ==
    /\ pc = "upload"
    /\ i <= Len(catalog)
    /\ "parameters" \notin DOMAIN catalog[i]
    /\ embedCalls' = Append(embedCalls, create_chunk_text(catalog[i]))
    /\ Raise("KeyError")
    /\ UNCHANGED <<env, indexes, store, catalog, i, vectors, q, results, shown, out,
                   upsertCalls, queryCalls, createCalls, ingested, previous, report>>

\* what upload_methods_to_pinecone returns to main: the function has no return
\* statement, so None, a value without any field
upload_return == <<>>

\* the upsert call after the loop, and the success line; the index takes
\* vectors of its own dimension only
Upsert ==
    /\ pc = "upload"
    /\ i > Len(catalog)
    /\ indexes[INDEX_NAME] = DIMENSION
    /\ upsertCalls' = Append(upsertCalls, UpsertCall(vectors))
    /\ store' = Upserted(UpsertCall(vectors))
    /\ ingested' = Ingest(ingested, vectors)
    /\ previous' = Previous(ingested, vectors)
    /\ out' = Append(out, "Successfully uploaded")
    /\ pc' = "test_retrieval"
    /\ q' = 1
    /\ UNCHANGED <<env, indexes, catalog, i, vectors, results, shown, error,
                   embedCalls, queryCalls, createCalls, report>>

\* an upsert whose exception is caught: the function goes on to its success
\* line and main to test_retrieval
UpsertFailsSwallowed ==
    /\ pc = "upload"
    /\ i > Len(catalog)
    /\ upsertCalls' = Append(upsertCalls, UpsertCall(vectors))
    /\ error' = "IndexFailure"
    /\ out' = Append(out, "Successfully uploaded")
    /\ pc' = "test_retrieval"
    /\ q' = 1
    /\ UNCHANGED <<env, indexes, store, catalog, i, vectors, results, shown,
                   embedCalls, queryCalls, createCalls, ingested, previous, report>>

\* index.upsert raises
UpsertFails ==
    /\ pc = "upload"
    /\ i > Len(catalog)
    /\ upsertCalls' = Append(upsertCalls, UpsertCall(vectors))
    /\ Raise("IndexFailure")
    /\ UNCHANGED <<env, indexes, store, catalog, i, vectors, q, results, shown, out,
                   embedCalls, queryCalls, createCalls, ingested, previous, report>>

-----------------------------------------------------------------------------
(* test_retrieval and verify_metadata *)

\* the `parameters` strings the index can come to hold
ParameterStrings ==
    { JsonDumps(GetParameters(d)) : d \in Descriptors }
        \cup { ForeignCorrupt.metadata["parameters"] }

\* JsonLoads on those strings, evaluated once
LoadsTable == [s \in ParameterStrings |-> JsonLoads(s)]

\* json.loads(s) as test_retrieval and verify_metadata call it
json_loads(s) == IF s \in ParameterStrings THEN LoadsTable[s] ELSE JsonLoads(s)

\* a decoding that reads meta['parameters'] of every match: a match without
\* the key fails
DecodedStrict(ms) ==
    [j \in 1..Len(ms) |->
        IF "parameters" \in DOMAIN ms[j].metadata
        THEN json_loads(ms[j].metadata["parameters"])
        ELSE [ok |-> FALSE, val |-> <<>>]]

\* json.loads(meta['parameters']) of each match of ms that has the key, as
\* the loop over the matches computes it; a match without the key has no
\* parameters to decode
Decoded(ms) ==
    [j \in 1..Len(ms) |->
        IF "parameters" \in DOMAIN ms[j].metadata
        THEN json_loads(ms[j].metadata["parameters"])
        ELSE [ok |-> TRUE, val |-> <<>>]]

\* the position of the first match whose parameters do not parse, 0 if none
FirstUndecodable(dec) ==
    IF \E j \in 1..Len(dec) : ~dec[j].ok
    THEN CHOOSE j \in 1..Len(dec) : ~dec[j].ok /\ \A h \in 1..(j - 1) : dec[h].ok
    ELSE 0

\* meta['code'][:100].replace('\n', ' ')
CodePreview(code) == Replace(Prefix(code, PREVIEW_LEN), "\n", " ")

\* what test_retrieval prints for match j of a query: score, service, method,
\* package, the code preview if 'code' in meta, len(params) if 'parameters'
\* in meta (an absent part is <<>>, a present one <<value>>)
ResultLines(match, j, params) ==
    [rank |-> j,
     score |-> match.score,
     service |-> match.metadata["service"],
     method |-> match.metadata["method"],
     package |-> match.metadata["package"],
     code |-> IF "code" \in DOMAIN match.metadata
              THEN <<CodePreview(match.metadata["code"])>> ELSE <<>>,
     params |-> IF "parameters" \in DOMAIN match.metadata
                THEN <<Len(params)>> ELSE <<>>]

\* a query call that leaves top_k to the client's default of 10
QueryCallNoTopK(text, k) ==
    [namespace |-> NAMESPACE, top_k |-> 10, vector |-> embed_text(text),
     include_metadata |-> TRUE]

\* index.query(vector=..., top_k=k, namespace="quickstart", include_metadata=True)
QueryCall(text, k) ==
    [namespace |-> NAMESPACE, top_k |-> k, vector |-> embed_text(text),
     include_metadata |-> TRUE]

\* the results['matches'] the index may answer a call with
Query(call) == IndexQuery(store[call.namespace], call.top_k)

\* a loop turn without `if results['matches']`: it reads matches[0] first
TestQueryUnguarded ==
    /\ pc = "test_retrieval"
    /\ q <= Len(test_queries)
    /\ \E matches \in Query(QueryCall(test_queries[q], TEST_TOP_K)) :
         LET printed == Prefix(matches, TEST_TOP_K)
             dec == Decoded(printed)
         IN  /\ FirstUndecodable(dec) = 0
             /\ results' = matches
             /\ shown' = [j \in 1..Len(printed) |->
                            ResultLines(printed[j], j, dec[j].val)]
             /\ IF matches = <<>>
                THEN Raise("IndexError") /\ q' = q
                ELSE q' = q + 1 /\ UNCHANGED <<pc, error>>
    /\ embedCalls' = Append(embedCalls, test_queries[q])
    /\ queryCalls' = Append(queryCalls, QueryCall(test_queries[q], TEST_TOP_K))
    /\ UNCHANGED <<env, indexes, store, catalog, i, vectors, out,
                   upsertCalls, createCalls, ingested, previous, report>>

\* a loop turn that prints the matches worst first
TestQueryReversed ==
    /\ pc = "test_retrieval"
    /\ q <= Len(test_queries)
    /\ \E matches \in Query(QueryCall(test_queries[q], TEST_TOP_K)) :
         LET printed == Prefix(matches, TEST_TOP_K)
             dec == Decoded(printed)
             n == Len(printed)
         IN  /\ FirstUndecodable(dec) = 0
             /\ results' = matches
             /\ shown' = [j \in 1..n |->
                            ResultLines(printed[n + 1 - j], j, dec[n + 1 - j].val)]
             /\ out' = IF matches = <<>> THEN Append(out, "No results found") ELSE out
    /\ embedCalls' = Append(embedCalls, test_queries[q])
    /\ queryCalls' = Append(queryCalls, QueryCall(test_queries[q], TEST_TOP_K))
    /\ q' = q + 1
    /\ UNCHANGED <<env, indexes, store, catalog, pc, i, vectors, error,
                   upsertCalls, createCalls, ingested, previous, report>>

\* one turn of the loop over test_queries in which nothing raises
TestQuery ==
    /\ pc = "test_retrieval"
    /\ q <= Len(test_queries)
    /\ \E matches \in Query(QueryCall(test_queries[q], TEST_TOP_K)) :
         LET printed == Prefix(matches, TEST_TOP_K)
             dec == Decoded(printed)
         IN  /\ FirstUndecodable(dec) = 0
             /\ results' = matches
             /\ shown' = [j \in 1..Len(printed) |->
                            ResultLines(printed[j], j, dec[j].val)]
             /\ out' = IF matches = <<>> THEN Append(out, "No results found") ELSE out
    /\ embedCalls' = Append(embedCalls, test_queries[q])
    /\ queryCalls' = Append(queryCalls, QueryCall(test_queries[q], TEST_TOP_K))
    /\ q' = q + 1
    /\ UNCHANGED <<env, indexes, store, catalog, pc, i, vectors, error,
                   upsertCalls, createCalls, ingested, previous, report>>

\* one turn of the loop in which json.loads raises on a returned match: the
\* matches before it have been printed
TestQueryDecodeError ==
    /\ pc = "test_retrieval"
    /\ q <= Len(test_queries)
    /\ \E matches \in Query(QueryCall(test_queries[q], TEST_TOP_K)) :
         LET printed == Prefix(matches, TEST_TOP_K)
             dec == Decoded(printed)
             bad == FirstUndecodable(dec)
         IN  /\ bad # 0
             /\ results' = matches
             /\ shown' = [j \in 1..(bad - 1) |->
                            ResultLines(printed[j], j, dec[j].val)]
    /\ embedCalls' = Append(embedCalls, test_queries[q])
    /\ queryCalls' = Append(queryCalls, QueryCall(test_queries[q], TEST_TOP_K))
    /\ Raise("JSONDecodeError")
    /\ UNCHANGED <<env, indexes, store, catalog, i, vectors, q, out,
                   upsertCalls, createCalls, ingested, previous, report>>

\* one turn of the loop in which embed_text(query) raises
TestQueryEmbedFails ==
    /\ pc = "test_retrieval"
    /\ q <= Len(test_queries)
    /\ embedCalls' = Append(embedCalls, test_queries[q])
    /\ results' = <<>>
    /\ shown' = <<>>
    /\ Raise("EmbeddingFailure")
    /\ UNCHANGED <<env, indexes, store, catalog, i, vectors, q, out,
                   upsertCalls, queryCalls, createCalls, ingested, previous, report>>

\* one turn of the loop in which index.query raises
TestQueryIndexFails ==
    /\ pc = "test_retrieval"
    /\ q <= Len(test_queries)
    /\ embedCalls' = Append(embedCalls, test_queries[q])
    /\ queryCalls' = Append(queryCalls, QueryCall(test_queries[q], TEST_TOP_K))
    /\ results' = <<>>
    /\ shown' = <<>>
    /\ Raise("IndexFailure")
    /\ UNCHANGED <<env, indexes, store, catalog, i, vectors, q, out,
                   upsertCalls, createCalls, ingested, previous, report>>

\* the loop is over: test_retrieval prints its last lines and returns
TestRetrievalComplete ==
    /\ pc = "test_retrieval"
    /\ q > Len(test_queries)
    /\ pc' = "verify_metadata"
    /\ results' = <<>>
    /\ shown' = <<>>
    /\ out' = Append(out, "RETRIEVAL TESTS COMPLETE")
    /\ UNCHANGED <<env, indexes, store, catalog, i, vectors, q, error,
                   embedCalls, upsertCalls, queryCalls, createCalls, ingested,
                   previous, report>>

\* meta.get(key, 'MISSING')
GetOrMissing(meta, key) == IF key \in DOMAIN meta THEN meta[key] ELSE <<"MISSING">>

\* what verify_metadata prints for the sample match, whose decoded
\* parameters are params
SampleReport(match, params) ==
    LET meta == match.metadata
    IN  [service |-> GetOrMissing(meta, "service"),
         method |-> GetOrMissing(meta, "method"),
         package |-> GetOrMissing(meta, "package"),
         description |-> Prefix(GetOrMissing(meta, "description"), 50),
         code_present |-> "code" \in DOMAIN meta,
         parameters_present |-> "parameters" \in DOMAIN meta,
         label |-> GetOrMissing(meta, "label"),
         code |-> IF "code" \in DOMAIN meta
                  THEN <<Len(meta["code"]), Prefix(meta["code"], 200)>> ELSE <<>>,
         params |-> IF "parameters" \in DOMAIN meta
                    THEN <<Len(params),
                           [k \in 1..Min(3, Len(params)) |->
                              <<params[k][1], Prefix(params[k][2], 50)>>]>>
                    ELSE <<>>]

\* verify_metadata without an exception, then the rest of main: the SUCCESS
\* report with its `Total vectors` line
VerifyMetadata ==
    /\ pc = "verify_metadata"
    /\ \E matches \in Query(QueryCall(sample_query_text, VERIFY_TOP_K)) :
         LET dec == Decoded(Prefix(matches, 1))
         IN  /\ FirstUndecodable(dec) = 0
             /\ results' = matches
             /\ shown' = IF matches = <<>> THEN <<>>
                         ELSE <<SampleReport(matches[1], dec[1].val)>>
    /\ embedCalls' = Append(embedCalls, sample_query_text)
    /\ queryCalls' = Append(queryCalls, QueryCall(sample_query_text, VERIFY_TOP_K))
    /\ out' = out \o <<"METADATA VERIFICATION COMPLETE", "SUCCESS">>
    /\ report' = <<Len(catalog)>>
    /\ pc' = "done"
    /\ UNCHANGED <<env, indexes, store, catalog, i, vectors, q, error,
                   upsertCalls, createCalls, ingested, previous>>

\* verify_metadata in which json.loads raises on the sample match
VerifyMetadataDecodeError ==
    /\ pc = "verify_metadata"
    /\ \E matches \in Query(QueryCall(sample_query_text, VERIFY_TOP_K)) :
         /\ FirstUndecodable(Decoded(Prefix(matches, 1))) # 0
         /\ results' = matches
    /\ embedCalls' = Append(embedCalls, sample_query_text)
    /\ queryCalls' = Append(queryCalls, QueryCall(sample_query_text, VERIFY_TOP_K))
    /\ shown' = <<>>
    /\ Raise("JSONDecodeError")
    /\ UNCHANGED <<env, indexes, store, catalog, i, vectors, q, out,
                   upsertCalls, createCalls, ingested, previous, report>>

\* verify_metadata in which embed_text raises
VerifyMetadataEmbedFails ==
    /\ pc = "verify_metadata"
    /\ embedCalls' = Append(embedCalls, sample_query_text)
    /\ Raise("EmbeddingFailure")
    /\ UNCHANGED <<env, indexes, store, catalog, i, vectors, q, results, shown, out,
                   upsertCalls, queryCalls, createCalls, ingested, previous, report>>

\* verify_metadata in which index.query raises
VerifyMetadataIndexFails ==
    /\ pc = "verify_metadata"
    /\ embedCalls' = Append(embedCalls, sample_query_text)
    /\ queryCalls' = Append(queryCalls, QueryCall(sample_query_text, VERIFY_TOP_K))
    /\ Raise("IndexFailure")
    /\ UNCHANGED <<env, indexes, store, catalog, i, vectors, q, results, shown, out,
                   upsertCalls, createCalls, ingested, previous, report>>

-----------------------------------------------------------------------------
(* The process around main *)

Ended == {"done", "returned", "crashed", "cancelled"}

\* the caller interrupts the run before its upsert call (KeyboardInterrupt,
\* which nothing in main catches)
Cancel ==
    /\ pc \in {"create_index", "upload"}
    /\ pc' = "cancelled"
    /\ error' = "KeyboardInterrupt"
    /\ UNCHANGED <<env, indexes, store, catalog, i, vectors, q, results, shown, out,
                   embedCalls, upsertCalls, queryCalls, createCalls, ingested,
                   previous, report>>

\* the process of an ended run exits: nothing of the run is left but what
\* the index holds
Exit ==
    /\ pc \in Ended
    /\ pc' = "idle"
    /\ env' = {}
    /\ catalog' = <<>>
    /\ i' = 0
    /\ vectors' = <<>>
    /\ q' = 0
    /\ results' = <<>>
    /\ shown' = <<>>
    /\ out' = <<>>
    /\ error' = ""
    /\ embedCalls' = <<>>
    /\ upsertCalls' = <<>>
    /\ queryCalls' = <<>>
    /\ createCalls' = <<>>
    /\ previous' = <<>>
    /\ report' = <<>>
    /\ UNCHANGED <<indexes, store, ingested>>

\* the program is started again, with the environment and the catalog of
\* that start
NewRun ==
    /\ pc = "idle"
    /\ env' \in SUBSET EnvNames
    /\ catalog' \in Catalogs
    /\ pc' = "main"
    /\ UNCHANGED <<indexes, store, i, vectors, q, results, shown, out, error, embedCalls,
                   upsertCalls, queryCalls, createCalls, ingested, previous, report>>

Next ==
    \/ MissingOpenAIKey
    \/ MissingPineconeKey
    \/ EnvironmentLoaded
    \/ IndexAlreadyExists
    \/ CreateIndex
    \/ IndexSetupFails
    \/ ProcessMethod
    \/ ProcessMethodEmbedFails
    \/ ProcessMethodKeyError
    \/ Upsert
    \/ UpsertFails
    \/ TestQuery
    \/ TestQueryDecodeError
    \/ TestQueryEmbedFails
    \/ TestQueryIndexFails
    \/ TestRetrievalComplete
    \/ VerifyMetadata
    \/ VerifyMetadataDecodeError
    \/ VerifyMetadataEmbedFails
    \/ VerifyMetadataIndexFails
    \/ Cancel
    \/ Exit
    \/ NewRun

Spec == Init /\ [][Next]_vars

-----------------------------------------------------------------------------
(* two overlapping runs of upload_methods_to_pinecone *)

\* Two processes run upload_methods_to_pinecone(index) on the same catalog
\* and the same index.  `vectors`, the loop position and the output belong to
\* each process: here pc, i, vectors, embedCalls, out and error are functions
\* of the run.  The index (store, and the calls it receives in upsertCalls)
\* is the one thing both reach.
Runs == {"first", "second"}

ConcurrentInit ==
    /\ env = EnvNames
    /\ indexes = [n \in {INDEX_NAME} |-> DIMENSION]
    /\ \E recs \in InitialRecords :
         store = [ns \in Namespaces |-> IF ns = NAMESPACE THEN recs ELSE {OtherRecord}]
    /\ catalog \in Catalogs
    /\ pc = [r \in Runs |-> "upload"]
    /\ i = [r \in Runs |-> 1]
    /\ vectors = [r \in Runs |-> <<>>]
    /\ embedCalls = [r \in Runs |-> <<>>]
    /\ out = [r \in Runs |-> <<>>]
    /\ error = [r \in Runs |-> ""]
    /\ q = 0
    /\ results = <<>>
    /\ shown = <<>>
    /\ upsertCalls = <<>>
    /\ queryCalls = <<>>
    /\ createCalls = <<>>
    /\ ingested = <<>>
    /\ previous = <<>>
    /\ report = <<>>

\* a loop turn that appends to one list `vectors` shared by the two runs
RunProcessMethodShared(r) ==
    /\ pc[r] = "upload"
    /\ i[r] <= Len(catalog)
    /\ "parameters" \in DOMAIN catalog[i[r]]
    /\ LET text == create_chunk_text(catalog[i[r]])
           vector == Vector(catalog[i[r]], embed_text(text))
       IN  /\ embedCalls' = [embedCalls EXCEPT ![r] = Append(@, text)]
           /\ vectors' = [x \in Runs |-> Append(vectors[x], vector)]
    /\ i' = [i EXCEPT ![r] = @ + 1]
    /\ UNCHANGED <<env, indexes, store, catalog, pc, q, results, shown, out, error,
                   upsertCalls, queryCalls, createCalls, ingested, previous, report>>

\* one turn of the for loop of run r
RunProcessMethod(r) ==
    /\ pc[r] = "upload"
    /\ i[r] <= Len(catalog)
    /\ "parameters" \in DOMAIN catalog[i[r]]
    /\ LET text == create_chunk_text(catalog[i[r]])
       IN  /\ embedCalls' = [embedCalls EXCEPT ![r] = Append(@, text)]
           /\ vectors' = [vectors EXCEPT
                            ![r] = Append(@, Vector(catalog[i[r]], embed_text(text)))]
    /\ i' = [i EXCEPT ![r] = @ + 1]
    /\ UNCHANGED <<env, indexes, store, catalog, pc, q, results, shown, out, error,
                   upsertCalls, queryCalls, createCalls, ingested, previous, report>>

\* one turn of the for loop of run r in which embed_text raises
RunEmbedFails(r) ==
    /\ pc[r] = "upload"
    /\ i[r] <= Len(catalog)
    /\ embedCalls' = [embedCalls EXCEPT ![r] = Append(@, create_chunk_text(catalog[i[r]]))]
    /\ pc' = [pc EXCEPT ![r] = "crashed"]
    /\ error' = [error EXCEPT ![r] = "EmbeddingFailure"]
    /\ UNCHANGED <<env, indexes, store, catalog, i, vectors, q, results, shown, out,
                   upsertCalls, queryCalls, createCalls, ingested, previous, report>>

\* one turn of the for loop of run r on an entry without "parameters"
RunKeyError(r) ==
    /\ pc[r] = "upload"
    /\ i[r] <= Len(catalog)
    /\ "parameters" \notin DOMAIN catalog[i[r]]
    /\ embedCalls' = [embedCalls EXCEPT ![r] = Append(@, create_chunk_text(catalog[i[r]]))]
    /\ pc' = [pc EXCEPT ![r] = "crashed"]
    /\ error' = [error EXCEPT ![r] = "KeyError"]
    /\ UNCHANGED <<env, indexes, store, catalog, i, vectors, q, results, shown, out,
                   upsertCalls, queryCalls, createCalls, ingested, previous, report>>

\* the upsert call of run r and its success line; the index carries out one
\* call at a time
RunUpsert(r) ==
    /\ pc[r] = "upload"
    /\ i[r] > Len(catalog)
    /\ indexes[INDEX_NAME] = DIMENSION
    /\ upsertCalls' = Append(upsertCalls, UpsertCall(vectors[r]))
    /\ store' = Upserted(UpsertCall(vectors[r]))
    /\ ingested' = Ingest(ingested, vectors[r])
    /\ previous' = Previous(ingested, vectors[r])
    /\ out' = [out EXCEPT ![r] = Append(@, "Successfully uploaded")]
    /\ pc' = [pc EXCEPT ![r] = "uploaded"]
    /\ UNCHANGED <<env, indexes, catalog, i, vectors, q, results, shown, error,
                   embedCalls, queryCalls, createCalls, report>>

\* index.upsert raises in run r
RunUpsertFails(r) ==
    /\ pc[r] = "upload"
    /\ i[r] > Len(catalog)
    /\ upsertCalls' = Append(upsertCalls, UpsertCall(vectors[r]))
    /\ pc' = [pc EXCEPT ![r] = "crashed"]
    /\ error' = [error EXCEPT ![r] = "IndexFailure"]
    /\ UNCHANGED <<env, indexes, store, catalog, i, vectors, q, results, shown, out,
                   embedCalls, queryCalls, createCalls, ingested, previous, report>>

ConcurrentNext ==
    \/ \E r \in Runs : RunProcessMethod(r)
    \/ \E r \in Runs : RunEmbedFails(r)
    \/ \E r \in Runs : RunKeyError(r)
    \/ \E r \in Runs : RunUpsert(r)
    \/ \E r \in Runs : RunUpsertFails(r)

ConcurrentSpec == ConcurrentInit /\ [][ConcurrentNext]_vars

-----------------------------------------------------------------------------
(* Properties *)

Range(seq) == { seq[k] : k \in 1..Len(seq) }

\* the records of namespace "quickstart"
Records == store[NAMESPACE]

\* the upsert of this run has returned
UploadSucceeded == "Successfully uploaded" \in Range(out)

\* how many lines of out read line
CountOf(line) == Cardinality({ k \in 1..Len(out) : out[k] = line })

\* the catalog entry a metadata dict decodes to: json.loads of the
\* `parameters` string, the other fields read directly
DecodeMetadata(meta) ==
    [ k \in {"service", "method", "description", "code", "parameters", "package"} |->
        IF k = "parameters" THEN json_loads(meta["parameters"]).val ELSE meta[k] ]

\* C1: round-trip law.  The metadata built for every entry of the batch
\* parses, and decodes to the catalog entry it was built from, field for
\* field, the parameters with the same names in the same order with the same
\* texts; every record the program has stored decodes to a catalog entry.
C1_RoundTrip ==
    /\ \A j \in 1..Len(vectors) :
         /\ json_loads(vectors[j].metadata["parameters"]).ok
         /\ DecodeMetadata(vectors[j].metadata) = catalog[j]
    /\ \A r \in Records :
         "label" \in DOMAIN r.metadata =>
            /\ json_loads(r.metadata["parameters"]).ok
            /\ DecodeMetadata(r.metadata) \in Descriptors

\* test_retrieval has decoded a returned record whose parameters hold an
\* empty name, a backslash and JSON punctuation
C1_Witness ==
    /\ pc = "test_retrieval"
    /\ \E j \in 1..Len(shown), n \in 1..Len(vectors) :
         /\ results[j].metadata = vectors[n].metadata
         /\ catalog[n]["parameters"] = PunctuationParameters
         /\ shown[j].params = <<Len(PunctuationParameters)>>

\* C2: the `code` and `description` of every record of the batch, and of
\* every record of the namespace that the batch has written, are the
\* entry's code sample and description unchanged.
C2_CodeAndDescriptionVerbatim ==
    /\ \A j \in 1..Len(vectors) :
         /\ vectors[j].metadata["code"] = catalog[j]["code"]
         /\ vectors[j].metadata["description"] = catalog[j]["description"]
    /\ UploadSucceeded =>
         \A r \in Records :
            (\E j \in 1..Len(vectors) : vectors[j].id = r.id) =>
               \E n \in 1..Len(vectors) :
                  /\ vectors[n].id = r.id
                  /\ r.metadata["code"] = catalog[n]["code"]
                  /\ r.metadata["description"] = catalog[n]["description"]

\* a stored record holds a code sample with its leading and trailing
\* whitespace, while the text embedded for it holds the sample stripped
C2_Witness ==
    /\ UploadSucceeded
    /\ \E j \in 1..Len(vectors), r \in Records :
         /\ r.id = vectors[j].id
         /\ r.metadata["code"] = catalog[j]["code"]
         /\ catalog[j]["code"] # Strip(catalog[j]["code"])
         /\ Contains(embedCalls[j], Strip(catalog[j]["code"]))
         /\ ~Contains(embedCalls[j], catalog[j]["code"])

\* C3: idempotent upsert.  After the upsert of a run whose catalog has an
\* entry of a key that an earlier upsert had too, the namespace holds exactly
\* one record for that key, and its metadata is the one this run built.
C3_IdempotentUpsert ==
    UploadSucceeded =>
        \A k \in DOMAIN previous :
            /\ Cardinality({ r \in Records : MetaKey(r.metadata) = k }) = 1
            /\ \A r \in Records : MetaKey(r.metadata) = k => r.metadata = ingested[k]

\* C4: ids are unique.  The ids of the batch are pairwise distinct, and after
\* the upsert the namespace holds the record of every entry of the batch.
C4_IdsUnique ==
    /\ \A a, b \in 1..Len(vectors) : a # b => vectors[a].id # vectors[b].id
    /\ UploadSucceeded =>
         \A j \in 1..Len(vectors) :
            \E r \in Records : r.id = vectors[j].id /\ r.metadata = vectors[j].metadata

\* C5: no partial commit.  A run that an embedding failure or an interrupt
\* ended before its upsert has issued no upsert call, and the index changes
\* in one step of a run only: the upsert call issued after the whole catalog
\* has been processed, the first upsert call of the run.
C5_NoPartialCommit ==
    /\ []((pc \in {"crashed", "cancelled"} /\ ~UploadSucceeded
              /\ error \in {"EmbeddingFailure", "KeyboardInterrupt"})
            => upsertCalls = <<>>)
    /\ [][store' # store =>
            /\ pc = "upload"
            /\ i > Len(catalog)
            /\ Len(vectors) = Len(catalog)
            /\ upsertCalls = <<>>
            /\ Len(upsertCalls') = 1]_vars

\* the embedding call failed for the second entry, after the record of the
\* first one had been built: nothing has been sent to the index
C5_Witness ==
    /\ pc = "crashed"
    /\ error = "EmbeddingFailure"
    /\ ~UploadSucceeded
    /\ Len(vectors) >= 1
    /\ Len(embedCalls) = Len(vectors) + 1
    /\ upsertCalls = <<>>

\* C6: a successful ingestion has issued exactly one upsert call, scoped to
\* "quickstart", after one embedding call per entry; its batch has one record
\* per entry of the catalog, in catalog order, each with the entry's id and
\* key and the embedding of the entry's text.  No upsert call precedes the
\* end of the loop.
C6_SingleUpsert ==
    /\ (pc = "upload" /\ i <= Len(catalog)) => upsertCalls = <<>>
    /\ UploadSucceeded =>
         /\ Len(upsertCalls) = 1
         /\ upsertCalls[1].namespace = NAMESPACE
         /\ Len(upsertCalls[1].vectors) = Len(catalog)
         /\ Len(embedCalls) >= Len(catalog)
         /\ \A j \in 1..Len(catalog) :
              /\ upsertCalls[1].vectors[j].id = VectorId(catalog[j])
              /\ MetaKey(upsertCalls[1].vectors[j].metadata) = KeyOf(catalog[j])
              /\ upsertCalls[1].vectors[j].metadata["description"]
                    = catalog[j]["description"]
              /\ upsertCalls[1].vectors[j].values = embed_text(embedCalls[j])

\* a run over a catalog of two entries with different ids has ended in SUCCESS
C6_Witness ==
    /\ pc = "done"
    /\ Len(catalog) >= 2
    /\ VectorId(catalog[1]) # VectorId(catalog[2])
    /\ Len(upsertCalls) = 1

\* C7: namespace isolation.  Every upsert call and every query call names
\* "quickstart"; the records of the other namespace are what they were; every
\* returned match is a record of "quickstart".
C7_NamespaceIsolation ==
    /\ \A k \in 1..Len(upsertCalls) : upsertCalls[k].namespace = NAMESPACE
    /\ \A k \in 1..Len(queryCalls) : queryCalls[k].namespace = NAMESPACE
    /\ store["other"] = {OtherRecord}
    /\ \A j \in 1..Len(results) :
         \E r \in Records : r.id = results[j].id /\ r.metadata = results[j].metadata

\* a run has stored and retrieved in "quickstart" a record with the id of the
\* record of namespace "other"
C7_Witness ==
    /\ pc = "done"
    /\ \E j \in 1..Len(results) : results[j].id = OtherRecord.id

\* C8: re-ingestion is visible to retrieval.  Every returned match that names
\* a key some upsert has ingested carries the description the last such
\* upsert built for that key.
C8_ReingestionVisible ==
    \A j \in 1..Len(results) :
        MetaKey(results[j].metadata) \in DOMAIN ingested =>
            results[j].metadata["description"]
                = ingested[MetaKey(results[j].metadata)]["description"]

\* a retrieval returns the record of a key that this run re-ingested with a
\* description other than the one it had
C8_Witness ==
    \E j \in 1..Len(results) :
        /\ MetaKey(results[j].metadata) \in DOMAIN previous
        /\ previous[MetaKey(results[j].metadata)] # results[j].metadata["description"]

\* C9: k-bound.  A query of test_retrieval yields min(3, number of records)
\* matches and the query of verify_metadata min(1, number of records); no
\* more matches are printed than were returned.
C9_KBound ==
    /\ (pc = "test_retrieval" /\ q > 1) =>
          Len(results) = Min(TEST_TOP_K, Cardinality(Records))
    /\ pc = "done" => Len(results) = Min(VERIFY_TOP_K, Cardinality(Records))
    /\ Len(results) <= TEST_TOP_K
    /\ Len(shown) <= Len(results)

\* a query of test_retrieval over a namespace of one or two records has
\* returned them all
C9_Witness ==
    /\ pc = "test_retrieval"
    /\ q > 1
    /\ Cardinality(Records) \in 1..(TEST_TOP_K - 1)
    /\ Len(results) = Cardinality(Records)
    /\ Len(shown) = Cardinality(Records)

\* C10: empty namespace.  While the namespace holds no record, every query
\* yields no match, each processed query of test_retrieval has printed its
\* "No results found" line, and nothing but a failure of a collaborator ends
\* the run.
C10_EmptyNamespace ==
    (UploadSucceeded /\ Records = {}) =>
        /\ results = <<>>
        /\ shown = <<>>
        /\ error \in {"", "EmbeddingFailure", "IndexFailure"}
        /\ pc = "test_retrieval" => CountOf("No results found") = q - 1
        /\ pc \in {"verify_metadata", "done"} =>
              CountOf("No results found") = Len(test_queries)

\* a run over an empty namespace has gone through all its queries to SUCCESS
C10_Witness ==
    /\ pc = "done"
    /\ Records = {}
    /\ Len(queryCalls) = Len(test_queries) + 1
    /\ CountOf("No results found") = Len(test_queries)

\* s is an initial part of t
IsPrefix(s, t) == Len(s) <= Len(t) /\ \A k \in 1..Len(s) : s[k] = t[k]

\* create_chunk_text of every catalog entry, evaluated once
ChunkTable == [d \in Descriptors |-> create_chunk_text(d)]

\* the texts a run that nothing stops hands to embed_text, in call order
ExpectedEmbedCalls ==
    [j \in 1..Len(catalog) |-> ChunkTable[catalog[j]]]
        \o test_queries \o <<sample_query_text>>

\* C11: retrieval keeps the collaborator's order.  The j-th match printed for
\* a query is the j-th match the index returned, with the score the index
\* gave it; a query that nothing stops prints every returned match; the
\* returned scores never rise.
C11_OrderKept ==
    /\ pc # "done" =>
         /\ Len(shown) <= Len(results)
         /\ \A j \in 1..Len(shown) :
              /\ shown[j].rank = j
              /\ shown[j].score = results[j].score
              /\ shown[j].service = results[j].metadata["service"]
              /\ shown[j].method = results[j].metadata["method"]
    /\ (pc = "test_retrieval" /\ q > 1) => Len(shown) = Len(results)
    /\ (pc = "done" /\ results # <<>>) =>
         /\ Len(shown) = 1
         /\ shown[1].service = results[1].metadata["service"]
         /\ shown[1].method = results[1].metadata["method"]
    /\ \A j \in 1..(Len(results) - 1) : results[j].score >= results[j + 1].score

\* a query of test_retrieval has returned three different matches and all
\* three have been printed
C11_Witness ==
    /\ pc = "test_retrieval"
    /\ Len(results) = TEST_TOP_K
    /\ Len(shown) = TEST_TOP_K
    /\ results[1].metadata # results[2].metadata
    /\ results[2].metadata # results[3].metadata

\* C12: embed_text is called once per catalog entry, in catalog order, then
\* once per test query, then once for the sample query, and never again for a
\* text whose call has failed: at every point of a run the calls made are an
\* initial part of that list, of the length the position of the run tells.
C12_EmbedOncePerText ==
    /\ IsPrefix(embedCalls, ExpectedEmbedCalls)
    /\ pc = "upload" => Len(embedCalls) = i - 1
    /\ pc = "test_retrieval" => Len(embedCalls) = Len(catalog) + q - 1
    /\ pc = "verify_metadata" => Len(embedCalls) = Len(catalog) + Len(test_queries)
    /\ pc = "done" => Len(embedCalls) = Len(catalog) + Len(test_queries) + 1
    /\ (pc = "crashed" /\ q >= 1) => Len(embedCalls) = Len(catalog) + q
    /\ (pc = "crashed" /\ q = 0 /\ error \in {"EmbeddingFailure", "KeyError"}) =>
          Len(embedCalls) = Len(vectors) + 1

\* the embedding call of the third test query has failed, after the calls for
\* two catalog entries and two queries
C12_Witness ==
    /\ pc = "crashed"
    /\ error = "EmbeddingFailure"
    /\ q = 3
    /\ Len(catalog) = 2
    /\ Len(embedCalls) = Len(catalog) + 3
    /\ embedCalls[Len(embedCalls)] = test_queries[3]

\* the lines the text of entry d is made of, top to bottom
ExpectedLines(d) ==
    LET ps == IF "parameters" \in DOMAIN d THEN d["parameters"] ELSE <<>>
        paramLines == [k \in 1..Len(ps) |-> <<"-", " ">> \o ps[k][1] \o <<":", " ">> \o ps[k][2]]
    IN  << <<"AWS", " ">> \o Upper(d["service"]) \o <<" ">> \o d["method"]
               \o <<" ", "Method", " ", "(SDK", " ", "v3)">>,
           <<>>,
           <<"Description:", " ">> \o d["description"],
           <<>>,
           <<"V3", " ", "Code", " ", "Example:">>,
           Strip(d["code"]),
           <<>>,
           <<"Parameters:">> >>
        \o (IF ps = <<>> THEN <<Placeholder>> ELSE paramLines)
        \o << <<>>,
              <<"Package:", " ">> \o d["package"],
              <<"Service:", " ">> \o d["service"],
              <<"Method:", " ">> \o d["method"],
              <<"SDK", " ", "Version:", " ", "v", "3">> >>

\* those lines joined by line breaks, for every catalog entry, evaluated once
ExpectedText == [d \in Descriptors |-> Join(<<"\n">>, ExpectedLines(d))]

\* the position in the catalog of the entry whose text was handed to
\* embed_text last, 0 if the run has not embedded an entry or is past the loop
LastProjected ==
    IF pc = "upload" THEN i - 1
    ELSE IF pc = "crashed" /\ q = 0 /\ error \in {"EmbeddingFailure", "KeyError"}
         THEN Len(vectors) + 1
         ELSE 0

\* C13: create_chunk_text puts the parts of an entry in one fixed order.  The
\* text handed to embed_text for an entry is, line by line: the title with the
\* upper-cased service and the method, the description, the code sample, one
\* `- name: explanation` line per parameter in insertion order or the
\* placeholder sentence, then the Package, Service, Method and SDK Version
\* lines.
C13_ChunkTextLayout ==
    LastProjected > 0 =>
        embedCalls[LastProjected] = ExpectedText[catalog[LastProjected]]

\* the loop has embedded an entry with three parameters after one with none
C13_Witness ==
    /\ pc = "upload"
    /\ i = 3
    /\ catalog[1]["parameters"] = EmptyParameters
    /\ catalog[2]["parameters"] = PunctuationParameters
    /\ Contains(embedCalls[1], Placeholder)
    /\ ~Contains(embedCalls[2], Placeholder)

\* C14: the text create_chunk_text returns neither starts nor ends with
\* whitespace, and holds the code sample, stripped at its two ends only, as
\* one contiguous part.
C14_ChunkTextStripped ==
    LastProjected > 0 =>
        LET text == embedCalls[LastProjected]
        IN  /\ text # <<>>
            /\ ~IsSpace(text[1])
            /\ ~IsSpace(text[Len(text)])
            /\ Contains(text, Strip(catalog[LastProjected]["code"]))

\* the loop has embedded an entry whose code sample starts and ends with a
\* line break and is indented inside: the indentation is in the text
C14_Witness ==
    /\ pc = "upload"
    /\ i = 2
    /\ catalog[1]["code"] = IndentedCode
    /\ Contains(embedCalls[1], <<"(", "\n", " ", " ", "x", ")">>)
    /\ ~Contains(embedCalls[1], IndentedCode)

\* C15: projection determinism.  The text a loop turn hands to embed_text is
\* a function of the entry alone, the same in every turn of every run: an
\* entry that an earlier run stored unchanged gets the embedding it got then.
\* The turn leaves the catalog as it is and calls no collaborator but
\* embed_text, once.
C15_ProjectionDeterministic ==
    [][(pc = "upload" /\ embedCalls' # embedCalls) =>
          /\ catalog' = catalog
          /\ embedCalls' = Append(embedCalls, ExpectedText[catalog[i]])
          /\ upsertCalls' = upsertCalls
          /\ queryCalls' = queryCalls
          /\ createCalls' = createCalls
          /\ store' = store
          /\ pc' = "upload" =>
                \A r \in Records :
                    r.metadata = vectors'[Len(vectors')].metadata =>
                        r.values = vectors'[Len(vectors')].values]_vars

\* a run has embedded, as its second entry, an entry that an earlier run
\* stored unchanged
C15_Witness ==
    /\ pc = "upload"
    /\ i = 3
    /\ upsertCalls = <<>>
    /\ \E r \in Records :
         /\ r.metadata = vectors[2].metadata
         /\ r.values = vectors[2].values

\* the keys of the metadata dict of a vector
MetadataKeys ==
    {"service", "method", "sdk_version", "package", "description", "code",
     "parameters", "label"}

\* vector v is as ingestion builds them: the eight keys, each value one
\* string (the parameters one of the strings json.dumps yields), the label
\* the id, the id ending in "_" and the sdk_version
WellFormedVector(v) ==
    LET meta == v.metadata
        n == Len(v.id)
        m == Len(meta["sdk_version"])
    IN  /\ DOMAIN meta = MetadataKeys
        /\ meta["service"] \in Services
        /\ meta["method"] \in Methods
        /\ meta["package"] = Package
        /\ meta["description"] \in Descriptions
        /\ meta["code"] \in {IndentedCode, PlainCode}
        /\ meta["parameters"] \in ParameterStrings
        /\ meta["label"] = v.id
        /\ n > m
        /\ SubSeq(v.id, n - m + 1, n) = meta["sdk_version"]
        /\ v.id[n - m] = "_"

\* C16: every record ingestion builds or submits has a flat metadata dict
\* with exactly the keys service, method, sdk_version, package, description,
\* code, parameters and label, the parameters being one string; its label is
\* its id and its sdk_version the version suffix of its id.
C16_FlatMetadata ==
    /\ \A j \in 1..Len(vectors) : WellFormedVector(vectors[j])
    /\ \A k \in 1..Len(upsertCalls) :
         \A j \in 1..Len(upsertCalls[k].vectors) :
            WellFormedVector(upsertCalls[k].vectors[j])

\* an upsert call has submitted two records with different ids, one of them
\* with three parameters serialized into its parameters string
C16_Witness ==
    /\ Len(upsertCalls) = 1
    /\ Len(upsertCalls[1].vectors) = 2
    /\ upsertCalls[1].vectors[1].id # upsertCalls[1].vectors[2].id
    /\ upsertCalls[1].vectors[2].metadata["parameters"] = JsonDumps(PunctuationParameters)
    /\ upsertCalls[1].vectors[2].metadata["label"] = upsertCalls[1].vectors[2].id

\* the metadata of match j of the last query has no `parameters` key
LacksParameters(j) == "parameters" \notin DOMAIN results[j].metadata

\* C17: a returned match without the `parameters` key does not stop
\* retrieval.  It is printed with no parameters; the matches after it are
\* printed too; and a retrieval that json.loads has stopped was stopped at a
\* match that has the key.
C17_MissingParametersTolerated ==
    /\ (pc = "test_retrieval" /\ q > 1) =>
         /\ Len(shown) = Len(results)
         /\ \A j \in 1..Len(results) : LacksParameters(j) => shown[j].params = <<>>
    /\ error = "JSONDecodeError" =>
         /\ Len(shown) < Len(results)
         /\ ~LacksParameters(Len(shown) + 1)
         /\ ~json_loads(results[Len(shown) + 1].metadata["parameters"]).ok
         /\ \A j \in 1..Len(shown) : LacksParameters(j) => shown[j].params = <<>>
    /\ (pc = "done" /\ results # <<>> /\ LacksParameters(1)) =>
         /\ Len(shown) = 1
         /\ ~shown[1].parameters_present
         /\ shown[1].params = <<>>

\* a query of test_retrieval has returned a match without `parameters` first:
\* it and the two matches after it have been printed
C17_Witness ==
    /\ pc = "test_retrieval"
    /\ q > 1
    /\ Len(results) = TEST_TOP_K
    /\ Len(shown) = TEST_TOP_K
    /\ LacksParameters(1)
    /\ shown[1].params = <<>>
    /\ shown[2].params # <<>>
    /\ shown[3].params # <<>>

\* C18: a match whose `parameters` string does not parse is not skipped, and
\* a retrieval is all or nothing.  A query that test_retrieval has got
\* through had no such match among those it printed, and a retrieval that
\* json.loads has stopped has printed none of the matches of its query.
C18_DecodeAllOrNothing ==
    /\ (pc = "test_retrieval" /\ q > 1) =>
         \A j \in 1..Len(shown) :
            ~LacksParameters(j) => json_loads(results[j].metadata["parameters"]).ok
    /\ error = "JSONDecodeError" => pc = "crashed" /\ shown = <<>>

\* C19: a failure of the index is not swallowed.  After one the run has ended
\* by the exception, without SUCCESS and without a report; after a failed
\* create or upsert the upload success line is missing and no query was made;
\* after a failed query that query is the last call and the function it
\* failed in has not printed its closing line.
C19_IndexFailurePropagates ==
    error = "IndexFailure" =>
        /\ pc = "crashed"
        /\ "SUCCESS" \notin Range(out)
        /\ "METADATA VERIFICATION COMPLETE" \notin Range(out)
        /\ report = <<>>
        /\ q = 0 =>
              /\ ~UploadSucceeded
              /\ queryCalls = <<>>
              /\ Len(upsertCalls) <= 1
              /\ Len(embedCalls) <= Len(catalog)
        /\ q >= 1 =>
              /\ Len(queryCalls) = q
              /\ Len(embedCalls) = Len(catalog) + q
              /\ q <= Len(test_queries) => "RETRIEVAL TESTS COMPLETE" \notin Range(out)

\* the upsert of a batch of two records has failed: the run has ended there
\* and the namespace holds none of them
C19_Witness ==
    /\ pc = "crashed"
    /\ error = "IndexFailure"
    /\ q = 0
    /\ Len(upsertCalls) = 1
    /\ Len(upsertCalls[1].vectors) = 2
    /\ ~UploadSucceeded
    /\ \A r \in Records : \A j \in 1..Len(vectors) : r.id # vectors[j].id

\* C20: an entry that is not well formed is rejected before embed_text is
\* called for it and never reaches the index.  When the loop has stopped at
\* an entry without its "parameters" key, embed_text has been called for the
\* entries before it only, and no upsert call has been made.
C20_InvalidRejectedBeforeEmbedding ==
    error = "KeyError" =>
        /\ pc = "crashed"
        /\ "parameters" \notin DOMAIN catalog[i]
        /\ upsertCalls = <<>>
        /\ Len(embedCalls) = Len(vectors)

\* C21: whenever an upsert or a query has been issued, the index in use has
\* the configured DIMENSION, whether this program created it or found it.
C21_DimensionMatches ==
    (upsertCalls # <<>> \/ queryCalls # <<>>) =>
        /\ INDEX_NAME \in DOMAIN indexes
        /\ indexes[INDEX_NAME] = DIMENSION

\* C22: ingestion returns a report.  Once the upsert has returned, the value
\* upload_methods_to_pinecone hands back has an attempted and a succeeded
\* count, both the number of catalog entries.
C22_IngestionReport ==
    UploadSucceeded =>
        /\ {"attempted", "succeeded"} \subseteq DOMAIN upload_return
        /\ upload_return["attempted"] = Len(catalog)
        /\ upload_return["succeeded"] = Len(catalog)

\* the ids the current catalog gives its records
CatalogIds == { VectorId(catalog[j]) : j \in 1..Len(catalog) }

\* the ids of the batch built by the loop
BatchIds == { vectors[j].id : j \in 1..Len(vectors) }

\* the ids of the records of namespace "quickstart"
RecordIds == { r.id : r \in Records }

\* C23: ordering in main.  An upsert is issued only once create_pinecone_index
\* has found or created the index; a query is issued only once the one upsert
\* call of the run has returned; the six test queries come before the query of
\* verify_metadata.
C23_MainOrdering ==
    /\ upsertCalls # <<>> =>
          /\ INDEX_NAME \in DOMAIN indexes
          /\ \/ "Index already exists" \in Range(out)
             \/ "Index created successfully" \in Range(out)
    /\ queryCalls # <<>> =>
          /\ UploadSucceeded
          /\ Len(upsertCalls) = 1
    /\ \A k \in 1..Len(queryCalls) :
          queryCalls[k].top_k = IF k <= Len(test_queries) THEN TEST_TOP_K
                                ELSE VERIFY_TOP_K
    /\ Len(queryCalls) <= Len(test_queries) + 1

C23_Witness ==
    /\ pc = "done"
    /\ Len(createCalls) = 1
    /\ Len(upsertCalls) = 1
    /\ Len(queryCalls) = Len(test_queries) + 1

\* C24 as stated: after a run that reports SUCCESS the namespace holds as
\* many records as the catalog has entries, the number printed as
\* `Total vectors`, whatever it held before.
C24_TotalVectors ==
    pc = "done" => Cardinality(Records) = report[1]

\* C24 amended: after a run that reports SUCCESS the report prints the number
\* of catalog entries; the namespace holds one record per distinct id of the
\* batch and, besides, every record under another id; so the two numbers are
\* equal when the ids of the batch are pairwise distinct and the namespace
\* holds no record under another id.
C24_TotalVectorsAmended ==
    pc = "done" =>
        /\ report = <<Len(catalog)>>
        /\ Len(vectors) = Len(catalog)
        /\ BatchIds \subseteq RecordIds
        /\ Cardinality(Records) =
               Cardinality(BatchIds) + Cardinality({ r \in Records : r.id \notin BatchIds })
        /\ (Cardinality(BatchIds) = Len(vectors) /\ RecordIds \subseteq BatchIds)
               => Cardinality(Records) = report[1]

C24_Witness ==
    /\ pc = "done"
    /\ Cardinality(BatchIds) = Len(catalog)
    /\ Cardinality(Records) > report[1]

\* C25: frame of ingestion.  No step removes or changes a record of namespace
\* "quickstart" whose id is not an id of the current catalog, no step removes
\* an id from the namespace, and no step touches another namespace.
C25_Frame ==
    [][/\ \A r \in store[NAMESPACE] : r.id \notin CatalogIds => r \in store'[NAMESPACE]
       /\ { r.id : r \in store[NAMESPACE] } \subseteq { r.id : r \in store'[NAMESPACE] }
       /\ \A ns \in Namespaces \ {NAMESPACE} : store'[ns] = store[ns]]_vars

C25_Witness ==
    /\ UploadSucceeded
    /\ \E r \in Records : r.id \notin CatalogIds
    /\ \E r \in Records : r.id \in CatalogIds
    /\ previous # <<>>

\* the create_index call of create_pinecone_index
CreateIndexCall ==
    [name |-> INDEX_NAME, dimension |-> DIMENSION, metric |-> "cosine"]

C28_MissingKeyReturns ==
    /\ (~(EnvNames \subseteq env) /\ pc \notin {"main", "idle"}) => pc = "returned"
    /\ pc = "returned" =>
          /\ ~(EnvNames \subseteq env)
          /\ out = IF "OPENAI_API_KEY" \notin env
                   THEN <<"ERROR: OPENAI_API_KEY not found">>
                   ELSE <<"ERROR: PINECONE_API_KEY not found">>
          /\ error = ""
          /\ createCalls = <<>>
          /\ embedCalls = <<>>
          /\ upsertCalls = <<>>
          /\ queryCalls = <<>>

C28_Witness ==
    /\ pc = "returned"
    /\ env = {"OPENAI_API_KEY"}
    /\ INDEX_NAME \notin DOMAIN indexes

\* C29: an entry without "parameters" gets as far as its embedding call, with
\* a text that holds the placeholder sentence; the run then ends by KeyError,
\* with no vector for the entry, no upsert call and the index as it was.
C29_MissingParametersFailsAfterEmbedding ==
    /\ [](/\ \A j \in 1..Len(vectors) : "parameters" \in DOMAIN catalog[j]
          /\ error = "KeyError" =>
                /\ pc = "crashed"
                /\ i <= Len(catalog)
                /\ "parameters" \notin DOMAIN catalog[i]
                /\ Len(vectors) = i - 1
                /\ Len(embedCalls) = i
                /\ embedCalls[i] = ChunkTable[catalog[i]]
                /\ Contains(embedCalls[i], Placeholder)
                /\ upsertCalls = <<>>
                /\ ~UploadSucceeded)
    /\ [][error' = "KeyError" => store' = store]_vars

C29_Witness ==
    /\ error = "KeyError"
    /\ i = 2
    /\ Len(embedCalls) = 2
    /\ Records # {}

\* the batch a run has built once its loop has taken n entries
BatchTable ==
    [c \in Catalogs |->
        [j \in 1..Len(c) |->
            IF "parameters" \in DOMAIN c[j]
            THEN Vector(c[j], embed_text(ChunkTable[c[j]]))
            ELSE <<>>]]

\* C26: two overlapping runs on the same catalog share nothing but the index.
\* Under every interleaving each run's batch is the one it builds alone, entry
\* by entry from the catalog; and once both runs have uploaded, the namespace
\* holds exactly one record under each id of the catalog, which is a vector
\* one of the two runs submitted.
C26_OverlappingRuns ==
    /\ \A r \in Runs :
          /\ i[r] <= Len(catalog) + 1
          /\ Len(vectors[r]) = i[r] - 1
          /\ Len(embedCalls[r]) \in {i[r] - 1, i[r]}
          /\ vectors[r] = SubSeq(BatchTable[catalog], 1, i[r] - 1)
    /\ (\A r \in Runs : pc[r] = "uploaded") =>
          /\ Len(upsertCalls) = Cardinality(Runs)
          /\ \A id \in CatalogIds :
                Cardinality({ rec \in Records : rec.id = id }) = 1
          /\ \A rec \in Records :
                rec.id \in CatalogIds =>
                    \E r \in Runs : \E j \in 1..Len(vectors[r]) : vectors[r][j] = rec

C26_Witness ==
    /\ \A r \in Runs : pc[r] = "uploaded"
    /\ Len(catalog) = MaxCatalog
    /\ Cardinality(CatalogIds) = MaxCatalog
    /\ \E rec \in Records : rec.id \notin CatalogIds

====
